---- MODULE Spec2Model ----
(***************************************************************************)
(* People store of mono-repo-starter: the `people` table, the PeopleDAO    *)
(* access object and the /people route handlers, as a state machine.       *)
(*                                                                         *)
(* A uuid is a number in Ids, a timestamp a number in Times.  The store    *)
(* stamps defaults from its own clock (now()), PeopleDAO.update stamps     *)
(* updatedAt from the application's clock (new Date()); the two clocks     *)
(* advance independently.  A select without ORDER BY returns the rows in   *)
(* an order the store is free to choose at every query.                    *)
(*                                                                         *)
(* Spec      the DAO's calls on one store, and both clocks                 *)
(* SpecList  findAll and a caller walking its pages, on a store filled     *)
(*           and emptied by create and delete                              *)
(* SpecHttp  the five /people route handlers behind their schemas          *)
(* SpecRace  findAll's two queries interleaved with create and delete      *)
(* SpecBoot  the container entrypoint: database init, then the server      *)
(* SpecPost  two POST /people requests in flight at once                   *)
(* SpecUpdate  two PeopleDAO.update calls in flight at once                *)
(* SpecInit  two init processes on one database                            *)
(* SpecTable  the web client's PeopleTable, its timer and its requests     *)
(* SpecTableLive  SpecTable with time passing and timers firing            *)
(* SpecHealth  the web client's HealthCheck and its interval               *)
(***************************************************************************)
EXTENDS Integers, Sequences, FiniteSets, TLC

VARIABLES store, used, dbClock, appClock, writes, last, resp, pg, fa, boot, gone,
          procs, ui, hc

vars == <<store, used, dbClock, appClock, writes, last, resp, pg, fa, boot, gone,
          procs, ui, hc>>

-----------------------------------------------------------------------------
(* Bounds *)

MaxClock == 1
MaxWrites == 3
MaxRuns == 2
MaxEvents == 2
MaxChecks == 3

(* Program constants *)

DefaultLimit == 10
DefaultOffset == 0
TableLimit == 10
DebounceMs == 300
HealthIntervalMs == 30000

-----------------------------------------------------------------------------
(* Values *)

Ids == {1, 2, 3}
Times == 0..MaxClock

FirstNames == {"Ann", "Bob"}
LastNames == {"Lee"}
Emails == {"ann@example.com", "bob@example.com"}
Ages == {30}
Cities == {"Oslo"}
Countries == {"Norway"}
Searches == {"Ann"}

Null == [null |-> TRUE]
NoResp == [route |-> "none"]

Min(a, b) == IF a < b THEN a ELSE b
Max(a, b) == IF a > b THEN a ELSE b

\* A timestamp handed to the DAO: a Date object, or (from a JSON body) a string.
DateOf(t) == [date |-> TRUE, t |-> t]
JsonString == [date |-> FALSE, t |-> 0]

CreateKeys == {"firstName", "lastName", "email", "age", "city", "country"}
StampKeys == {"createdAt", "updatedAt"}
PersonKeys == CreateKeys \cup {"id"} \cup StampKeys

\* The values a caller of the typed DAO can give a column.
TypedValues(k) ==
    CASE k = "firstName" -> FirstNames
      [] k = "lastName" -> LastNames
      [] k = "email" -> Emails
      [] k = "age" -> Ages
      [] k = "city" -> Cities
      [] k = "country" -> Countries
      [] k = "id" -> Ids
      [] k \in StampKeys -> {DateOf(t) : t \in Times}

\* The values a JSON body can carry under a key: a timestamp arrives as a string.
JsonValues(k) == IF k \in StampKeys THEN {JsonString} ELSE TypedValues(k)

ColumnValues(k, json) == IF json THEN JsonValues(k) ELSE TypedValues(k)

\* { ...a, ...b }
Spread(a, b) == b @@ a

EmptyObject == [k \in {} |-> 0]

\* Every object with exactly one of the keys, typed or as parsed from JSON.
Singles(keys, json) ==
    UNION {{k :> v : v \in ColumnValues(k, json)} : k \in keys}

\* Every object with one value under each of two keys.
Doubles(k1, k2, json) ==
    {Spread(a, b) : a \in Singles({k1}, json), b \in Singles({k2}, json)}

\* The objects the calls are tried with: no key, one key, or firstName and email.
Partials(keys, json) ==
    {EmptyObject} \cup Singles(keys, json)
        \cup (IF {"firstName", "email"} \subseteq keys
              THEN Doubles("firstName", "email", json) ELSE {})

\* CreatePersonSchema: all six fields, each within its bounds.
CreateInputs ==
    [firstName : FirstNames, lastName : LastNames, email : Emails,
     age : Ages, city : Cities, country : Countries]

\* NewPerson = typeof people.$inferInsert: the six fields, and optionally id,
\* createdAt, updatedAt.  The typed callers give the six fields; the optional
\* ones arrive in the body of a POST (PostBodies).
NewPersons == CreateInputs

\* Partial<NewPerson>
PartialNewPersons == Partials(PersonKeys, FALSE)

\* UpdatePersonSchema = Type.Partial(CreatePersonSchema)
UpdateInputs == {d \in PartialNewPersons : DOMAIN d \subseteq CreateKeys}

-----------------------------------------------------------------------------
(* The people table *)

Has(st, id) == \E r \in st : r.id = id
Row(st, id) == CHOOSE r \in st : r.id = id

\* gen_random_uuid(): an identifier never seen before.
FreshId(usedIds) == CHOOSE i \in Ids \ usedIds : \A j \in Ids \ usedIds : i <= j

\* PgTimestamp.mapToDriverValue calls value.toISOString(): only a Date has it.
BadStamp(obj) == \E k \in StampKeys \cap DOMAIN obj : ~obj[k].date

\* Mutant: the email column without its unique constraint.
Violates_PrimaryKeyOnly(st, row) == \E r \in st : r.id = row.id

\* primary key (id) and people_email_unique
Violates(st, row) == \E r \in st : r.id = row.id \/ r.email = row.email

Fail(st, kind) == [err |-> kind, store |-> st, ret |-> Null]
Ok(st, ret) == [err |-> "none", store |-> st, ret |-> ret]

\* Every order in which a select without ORDER BY can return the rows.
Orders(st) ==
    {s \in [1..Cardinality(st) -> st] : \A i, j \in DOMAIN s : s[i] = s[j] => i = j}

-----------------------------------------------------------------------------
(* PeopleDAO *)

InsertRow(usedIds, now, data) ==
    [id |-> IF "id" \in DOMAIN data THEN data.id ELSE FreshId(usedIds),
     firstName |-> data.firstName,
     lastName |-> data.lastName,
     email |-> data.email,
     age |-> data.age,
     city |-> data.city,
     country |-> data.country,
     createdAt |-> IF "createdAt" \in DOMAIN data THEN data.createdAt.t ELSE now,
     updatedAt |-> IF "updatedAt" \in DOMAIN data THEN data.updatedAt.t ELSE now]

\* Mutant: the row is returned but not stored.
DaoCreate_NotStored(st, usedIds, now, data) ==
    IF BadStamp(data) THEN Fail(st, "InvalidArgument")
    ELSE Ok(st, InsertRow(usedIds, now, data))

DaoCreate(st, usedIds, now, data) ==
    IF BadStamp(data) THEN Fail(st, "InvalidArgument")
    ELSE LET row == InsertRow(usedIds, now, data)
         IN  IF Violates(st, row) THEN Fail(st, "Conflict")
             ELSE Ok(st \cup {row}, row)

\* Mutant: .set(data), updatedAt left as it was.
UpdateSet_NoStamp(appNow, data) == data

\* .set({ ...data, updatedAt: new Date() })
UpdateSet(appNow, data) == Spread(data, "updatedAt" :> DateOf(appNow))

SetRow(old, set) ==
    [k \in DOMAIN old |->
        IF k \in DOMAIN set
        THEN (IF k \in StampKeys THEN set[k].t ELSE set[k])
        ELSE old[k]]

DaoUpdate(st, appNow, id, data) ==
    LET set == UpdateSet(appNow, data)
    IN  IF BadStamp(set) THEN Fail(st, "InvalidArgument")
        ELSE IF ~Has(st, id) THEN Ok(st, Null)
        ELSE LET old == Row(st, id)
                 new == SetRow(old, set)
             IN  IF Violates(st \ {old}, new) THEN Fail(st, "Conflict")
                 ELSE Ok((st \ {old}) \cup {new}, new)

\* Mutant: the result's length is not looked at.
DaoDelete_AlwaysTrue(st, id) == Ok({r \in st : r.id # id}, TRUE)

DaoDelete(st, id) == Ok({r \in st : r.id # id}, Has(st, id))

DaoFindById(st, id) == IF Has(st, id) THEN Row(st, id) ELSE Null

FindAllLimit(options) ==
    IF "limit" \in DOMAIN options THEN options.limit ELSE DefaultLimit

FindAllOffset(options) ==
    IF "offset" \in DOMAIN options THEN options.offset ELSE DefaultOffset

\* Mutant: .offset(offset) left out.
SelectPage_NoOffset(order, limit, offset) == SubSeq(order, 1, Min(limit, Len(order)))

SelectPage(order, limit, offset) ==
    SubSeq(order, offset + 1, Min(offset + limit, Len(order)))

\* Mutant: the count query's result is not read.
CountAll_Zero(st) == 0

CountAll(st) == Cardinality(st)

DaoFindAll(st, order, options) ==
    [data |-> SelectPage(order, FindAllLimit(options), FindAllOffset(options)),
     total |-> CountAll(st)]

-----------------------------------------------------------------------------
(* Calls *)

PgIdle == [phase |-> "idle"]

\* The entrypoint has run: the table exists and the server is up.
Booted ==
    [pc |-> "serving", script |-> "prod", tables |-> TRUE, fresh |-> FALSE,
     migrated |-> TRUE, tableEmpty |-> FALSE, code |-> 0, failed |-> "none", runs |-> 1,
     doc |-> {}]

\* No concurrent callers; a component of the web client that is not on a page.
NoCallers == << >>
Unmounted == [mounted |-> FALSE]

\* No findAll is between its two queries.
FaIdle == [phase |-> "idle"]

\* The store states a running findAll has lived through.
Snap(f, st) == IF f.phase = "idle" THEN f ELSE [f EXCEPT !.snaps = @ \cup {st}]

\* The ids a DELETE has answered 204 for.
Gone(g, reply) ==
    IF reply.route = "DELETE /people/:id" /\ reply.status = 204
    THEN g \cup {reply.request} ELSE g

\* What a call leaves alone: the entrypoint; a running findAll sees the new store,
\* and a 204 is remembered.
Aside ==
    /\ fa' = Snap(fa, store')
    /\ gone' = Gone(gone, resp')
    /\ UNCHANGED <<boot, procs, ui, hc>>

\* No call runs while a caller is walking the pages (no concurrent writes).
Quiet == pg.phase # "paging"

\* A call that writes: at most MaxWrites of them in a run.
Writing == Quiet /\ writes < MaxWrites /\ writes' = writes + 1

Init ==
    /\ store = {}
    /\ used = {}
    /\ dbClock = 0
    /\ appClock = 0
    /\ writes = 0
    /\ last = [op |-> "init"]
    /\ resp = NoResp
    /\ pg = PgIdle
    /\ fa = FaIdle
    /\ boot = Booted
    /\ gone = {}
    /\ procs = NoCallers
    /\ ui = Unmounted
    /\ hc = Unmounted

\* The store's clock, read by now().
TickDb ==
    /\ Quiet
    /\ dbClock < MaxClock
    /\ dbClock' = dbClock + 1
    /\ last' = [op |-> "tick"]
    /\ resp' = NoResp
    /\ pg' = PgIdle
    /\ UNCHANGED <<store, used, appClock, writes>>
    /\ Aside

\* The application's clock, read by new Date().
TickApp ==
    /\ Quiet
    /\ appClock < MaxClock
    /\ appClock' = appClock + 1
    /\ last' = [op |-> "tick"]
    /\ resp' = NoResp
    /\ pg' = PgIdle
    /\ UNCHANGED <<store, used, dbClock, writes>>
    /\ Aside

CanInsert(data) == "id" \in DOMAIN data \/ BadStamp(data) \/ Ids \ used # {}

CreateCall(data) == DaoCreate(store, used, dbClock, data)

CreateEffect(data, r) ==
    /\ store' = r.store
    /\ used' = IF r.err = "none" THEN used \cup {r.ret.id} ELSE used
    /\ last' = [op |-> "create", data |-> data, ret |-> r.ret, err |-> r.err]
    /\ pg' = PgIdle
    /\ UNCHANGED <<dbClock, appClock>>

Create(data) ==
    /\ Writing
    /\ CanInsert(data)
    /\ CreateEffect(data, CreateCall(data))
    /\ resp' = NoResp
    /\ Aside

UpdateCall(id, data) == DaoUpdate(store, appClock, id, data)

UpdateEffect(id, data, r) ==
    /\ store' = r.store
    /\ used' = IF r.err = "none" /\ r.ret # Null THEN used \cup {r.ret.id} ELSE used
    /\ last' = [op |-> "update", id |-> id, data |-> data, ret |-> r.ret, err |-> r.err]
    /\ pg' = PgIdle
    /\ UNCHANGED <<dbClock, appClock>>

Update(id, data) ==
    /\ Writing
    /\ UpdateEffect(id, data, UpdateCall(id, data))
    /\ resp' = NoResp
    /\ Aside

DeleteCall(id) == DaoDelete(store, id)

DeleteEffect(id, r) ==
    /\ store' = r.store
    /\ last' = [op |-> "delete", id |-> id, ret |-> r.ret, err |-> r.err]
    /\ pg' = PgIdle
    /\ UNCHANGED <<used, dbClock, appClock>>

Delete(id) ==
    /\ Writing
    /\ DeleteEffect(id, DeleteCall(id))
    /\ resp' = NoResp
    /\ Aside

FindById(id) ==
    /\ Quiet
    /\ last' = [op |-> "findById", id |-> id, ret |-> DaoFindById(store, id), err |-> "none"]
    /\ resp' = NoResp
    /\ pg' = PgIdle
    /\ UNCHANGED <<store, used, dbClock, appClock, writes>>
    /\ Aside

\* findAll's options: limit and offset, each optional.
FindAllOptions ==
    {Spread(l, o) : l \in {EmptyObject} \cup {"limit" :> n : n \in 0..MaxWrites},
                    o \in {EmptyObject} \cup {"offset" :> n : n \in 0..MaxWrites}}

FindAllEffect(options, r) ==
    /\ last' = [op |-> "findAll", options |-> options, ret |-> r, err |-> "none"]
    /\ UNCHANGED <<store, used, dbClock, appClock, writes>>

FindAll(options) ==
    /\ Quiet
    /\ \E order \in Orders(store) : FindAllEffect(options, DaoFindAll(store, order, options))
    /\ resp' = NoResp
    /\ pg' = PgIdle
    /\ Aside

-----------------------------------------------------------------------------
(* Contract schemas *)

\* format: 'uuid'.  The well-formed identifiers are the numbers of Ids.
IsUuid(id) == id \in Ids

\* format: 'email'.  The well-formed addresses are those of Emails.
IsEmail(s) == s \in Emails

\* The path segment of a request: a uuid, or something that is not one.
PathIds == Ids \cup {0}

\* Mutant: id: Type.String(), without the format.
ValidParams_AnyString(id) == TRUE

\* PersonIdParamSchema
ValidParams(id) == IsUuid(id)

\* ListPeopleQuerySchema: limit within 1..100, offset >= 0, search not empty.
ValidQuery(q) ==
    /\ "limit" \in DOMAIN q => q.limit \in 1..100
    /\ "offset" \in DOMAIN q => q.offset >= 0
    /\ "search" \in DOMAIN q => q.search # ""

\* The bounds CreatePersonSchema puts on a property; it puts none on a property
\* it does not name.
FieldOk(k, v) ==
    CASE k = "age" -> v \in 0..150
      [] k = "email" -> IsEmail(v)
      [] k \in {"firstName", "lastName", "city", "country"} -> v # ""
      [] OTHER -> TRUE

\* CreatePersonSchema: the six properties are required.
ValidCreateBody(b) ==
    /\ CreateKeys \subseteq DOMAIN b
    /\ \A k \in DOMAIN b : FieldOk(k, b[k])

\* UpdatePersonSchema = Type.Partial(CreatePersonSchema): none is required.
ValidUpdateBody(b) == \A k \in DOMAIN b : FieldOk(k, b[k])

-----------------------------------------------------------------------------
(* Requests *)

\* Queries that pass ListPeopleQuerySchema: limit, offset, search, each optional.
ListQueries ==
    {Spread(Spread(l, o), q) :
        l \in {EmptyObject} \cup {"limit" :> n : n \in {1, 2}},
        o \in {EmptyObject} \cup {"offset" :> n : n \in {0, 1}},
        q \in {EmptyObject} \cup {"search" :> x : x \in Searches}}

\* The queries the list route is tried with: those, and the schema's edges.
ListRequests ==
    ListQueries \cup {"limit" :> 0, "limit" :> 100, "limit" :> 101,
                      "offset" :> (0 - 1), "search" :> ""}

\* A body that passes CreatePersonSchema: the six fields within their bounds, and
\* any further properties, which the schema neither forbids nor removes.
PostBodies ==
    {Spread(c, x) : c \in CreateInputs,
                    x \in Partials({"id"} \cup StampKeys, TRUE)}

Without(obj, k) == [j \in DOMAIN obj \ {k} |-> obj[j]]

\* Bodies that fail a bound of CreatePersonSchema, or lack a required property.
BadFields == {"age" :> 151, "age" :> (0 - 1), "email" :> "ann.example.com", "firstName" :> ""}

\* The scenario's person.
AnnLee ==
    [firstName |-> "Ann", lastName |-> "Lee", email |-> "ann@example.com",
     age |-> 30, city |-> "Oslo", country |-> "Norway"]

\* The bodies the create route is tried with.
PostRequests ==
    PostBodies \cup {Spread(AnnLee, x) : x \in BadFields} \cup {Without(AnnLee, "email")}

\* The bodies the update route is tried with: no property, one, or firstName and
\* email; and those that fail a bound.
PutRequests ==
    Partials({"firstName", "email", "age", "id"} \cup StampKeys, TRUE) \cup BadFields

-----------------------------------------------------------------------------
(* Route handlers *)

\* A DAO call that is made has its result, or fails because the store cannot be
\* reached.
Reach(r, st) == {r, Fail(st, "Unavailable")}

NoCall == [op |-> "none", err |-> "none"]

\* Mutant: the body without its message.
ErrorBody_NoMessage(label, message) == [error |-> label]

ErrorBody(label, message) == [error |-> label, message |-> message]

\* `Person with id ${id} not found`
NotFoundBody(id) == ErrorBody("Not Found", <<"Person with id", id, "not found">>)

\* The reply to a request that fails the route's schema: the handler is not run.
\* request is the path id the reply is for, Null on a route without one.
ValidationReply(route, request) ==
    [route |-> route, status |-> 400, request |-> request,
     body |-> [statusCode |-> 400, error |-> "Bad Request", message |-> "validation"]]

\* The reply when a handler lets the DAO's failure escape.
ThrownReply(route, request, kind) ==
    [route |-> route, status |-> 500, request |-> request,
     body |-> [statusCode |-> 500, error |-> "Internal Server Error", message |-> kind]]

Rejected(route, request) ==
    /\ resp' = ValidationReply(route, request)
    /\ last' = NoCall
    /\ UNCHANGED <<store, used, dbClock, appClock, writes>>

\* Mutant: limit = 100 when the query has none.
ListOptions_Limit100(query) ==
    Spread([limit |-> IF "limit" \in DOMAIN query THEN query.limit ELSE 100,
            offset |-> IF "offset" \in DOMAIN query THEN query.offset ELSE DefaultOffset],
           IF "search" \in DOMAIN query THEN "search" :> query.search ELSE EmptyObject)

\* const { limit = 10, offset = 0, search } = request.query
ListOptions(query) ==
    Spread([limit |-> IF "limit" \in DOMAIN query THEN query.limit ELSE DefaultLimit,
            offset |-> IF "offset" \in DOMAIN query THEN query.offset ELSE DefaultOffset],
           IF "search" \in DOMAIN query THEN "search" :> query.search ELSE EmptyObject)

ListReply(query, r) ==
    [route |-> "GET /people", status |-> 200, query |-> query,
     body |-> [data |-> r.data, total |-> r.total,
               limit |-> ListOptions(query).limit, offset |-> ListOptions(query).offset]]

FindAllFailed(options, kind) ==
    /\ last' = [op |-> "findAll", options |-> options, ret |-> Null, err |-> kind]
    /\ UNCHANGED <<store, used, dbClock, appClock, writes>>

\* GET /people
GetPeople(query) ==
    /\ Quiet
    /\ IF ~ValidQuery(query) THEN Rejected("GET /people", Null)
       ELSE \/ \E order \in Orders(store) :
                  LET r == DaoFindAll(store, order, ListOptions(query))
                  IN  /\ FindAllEffect(ListOptions(query), r)
                      /\ resp' = ListReply(query, r)
            \/ /\ FindAllFailed(ListOptions(query), "Unavailable")
               /\ resp' = ThrownReply("GET /people", Null, "Unavailable")
    /\ pg' = PgIdle
    /\ Aside

\* Mutant: a person is always found.
GetOneReply_Always200(id, r) ==
    [route |-> "GET /people/:id", status |-> 200, request |-> id, body |-> r.ret]

GetOneReply(id, r) ==
    IF r.err # "none" THEN ThrownReply("GET /people/:id", id, r.err)
    ELSE IF r.ret = Null
    THEN [route |-> "GET /people/:id", status |-> 404, request |-> id, body |-> NotFoundBody(id)]
    ELSE [route |-> "GET /people/:id", status |-> 200, request |-> id, body |-> r.ret]

\* GET /people/:id
GetPerson(id) ==
    /\ Quiet
    /\ IF ~ValidParams(id) THEN Rejected("GET /people/:id", id)
       ELSE \E r \in Reach(Ok(store, DaoFindById(store, id)), store) :
                /\ last' = [op |-> "findById", id |-> id, ret |-> r.ret, err |-> r.err]
                /\ resp' = GetOneReply(id, r)
                /\ UNCHANGED <<store, used, dbClock, appClock, writes>>
    /\ pg' = PgIdle
    /\ Aside

\* Mutant: no try/catch, every call answered as created.
PostReply_Always201(r) == [route |-> "POST /people", status |-> 201, body |-> r.ret]

PostReply(r) ==
    IF r.err = "none"
    THEN [route |-> "POST /people", status |-> 201, body |-> r.ret]
    ELSE [route |-> "POST /people", status |-> 400, body |-> ErrorBody("Bad Request", r.err)]

\* POST /people
PostPeople(body) ==
    /\ IF ~ValidCreateBody(body) THEN Quiet /\ pg' = PgIdle /\ Rejected("POST /people", Null)
       ELSE /\ Writing
            /\ CanInsert(body)
            /\ \E r \in Reach(CreateCall(body), store) :
                  /\ CreateEffect(body, r)
                  /\ resp' = PostReply(r)
    /\ Aside

PutReply(id, r) ==
    IF r.err # "none"
    THEN [route |-> "PUT /people/:id", status |-> 400, request |-> id,
          body |-> ErrorBody("Bad Request", r.err)]
    ELSE IF r.ret = Null
    THEN [route |-> "PUT /people/:id", status |-> 404, request |-> id, body |-> NotFoundBody(id)]
    ELSE [route |-> "PUT /people/:id", status |-> 200, request |-> id, body |-> r.ret]

\* PUT /people/:id
PutPerson(id, body) ==
    /\ IF ~(ValidParams(id) /\ ValidUpdateBody(body))
       THEN Quiet /\ pg' = PgIdle /\ Rejected("PUT /people/:id", id)
       ELSE /\ Writing
            /\ \E r \in Reach(UpdateCall(id, body), store) :
                  /\ UpdateEffect(id, body, r)
                  /\ resp' = PutReply(id, r)
    /\ Aside

DeleteReply(id, r) ==
    IF r.err # "none" THEN ThrownReply("DELETE /people/:id", id, r.err)
    ELSE IF ~r.ret
    THEN [route |-> "DELETE /people/:id", status |-> 404, request |-> id, body |-> NotFoundBody(id)]
    ELSE [route |-> "DELETE /people/:id", status |-> 204, request |-> id, body |-> Null]

\* DELETE /people/:id
DeletePerson(id) ==
    /\ IF ~ValidParams(id) THEN Quiet /\ pg' = PgIdle /\ Rejected("DELETE /people/:id", id)
       ELSE /\ Writing
            /\ \E r \in Reach(DeleteCall(id), store) :
                  /\ DeleteEffect(id, r)
                  /\ resp' = DeleteReply(id, r)
    /\ Aside

-----------------------------------------------------------------------------
(* A caller that walks the pages: offset = 0, limit, 2*limit, ... until a page *)
(* comes back shorter than limit.                                              *)

PageIds(page) == [i \in DOMAIN page |-> page[i].id]

PageFetch(limit, offset, visited) ==
    \E order \in Orders(store) :
        LET options == [limit |-> limit, offset |-> offset]
            r == DaoFindAll(store, order, options)
        IN  /\ FindAllEffect(options, r)
            /\ pg' = [phase |-> IF Len(r.data) < limit THEN "done" ELSE "paging",
                      limit |-> limit, offset |-> offset + limit,
                      visited |-> visited \o PageIds(r.data)]
            /\ resp' = NoResp

PageStart(limit) ==
    /\ Quiet
    /\ PageFetch(limit, 0, <<>>)
    /\ Aside

PageNext ==
    /\ pg.phase = "paging"
    /\ PageFetch(pg.limit, pg.offset, pg.visited)
    /\ Aside

-----------------------------------------------------------------------------
(* findAll as the store sees it: Promise.all sends the page query and the count *)
(* query on the pool; they run one after the other, in either order, and other  *)
(* calls run in between.                                                        *)

FindAllBegin(options) ==
    /\ Quiet
    /\ fa.phase = "idle"
    /\ fa' = [phase |-> "running", options |-> options, got |-> {},
              data |-> <<>>, total |-> 0, snaps |-> {store}]
    /\ UNCHANGED <<store, used, dbClock, appClock, writes, last, resp, pg, boot, gone, procs, ui, hc>>

\* db.select().from(people).limit(limit).offset(offset)
FindAllPageQuery ==
    /\ fa.phase = "running"
    /\ "page" \notin fa.got
    /\ \E order \in Orders(store) :
          fa' = [fa EXCEPT !.got = @ \cup {"page"},
                           !.data = SelectPage(order, FindAllLimit(fa.options),
                                               FindAllOffset(fa.options))]
    /\ UNCHANGED <<store, used, dbClock, appClock, writes, last, resp, pg, boot, gone, procs, ui, hc>>

\* db.select({ count: sql`count(*)::int` }).from(people)
FindAllCountQuery ==
    /\ fa.phase = "running"
    /\ "count" \notin fa.got
    /\ fa' = [fa EXCEPT !.got = @ \cup {"count"}, !.total = CountAll(store)]
    /\ UNCHANGED <<store, used, dbClock, appClock, writes, last, resp, pg, boot, gone, procs, ui, hc>>

\* return { data, total: countResult[0].count }
FindAllReturn ==
    /\ fa.phase = "running"
    /\ fa.got = {"page", "count"}
    /\ last' = [op |-> "findAll", options |-> fa.options,
                ret |-> [data |-> fa.data, total |-> fa.total], err |-> "none",
                snaps |-> fa.snaps]
    /\ fa' = FaIdle
    /\ UNCHANGED <<store, used, dbClock, appClock, writes, resp, pg, boot, gone, procs, ui, hc>>

\* The options the interleaved findAll is called with.
RaceOptions == {EmptyObject, [limit |-> 1, offset |-> 1]}

-----------------------------------------------------------------------------
(* Database init (init.ts) and the container entrypoints that run it *)

\* runSeeding's mockPeople
mockPeople ==
    << [firstName |-> "John", lastName |-> "Smith", email |-> "john.smith@example.com", age |-> 28, city |-> "New York", country |-> "USA"],
       [firstName |-> "Emma", lastName |-> "Johnson", email |-> "emma.johnson@example.com", age |-> 34, city |-> "London", country |-> "UK"],
       [firstName |-> "Michael", lastName |-> "Brown", email |-> "michael.brown@example.com", age |-> 42, city |-> "Toronto", country |-> "Canada"],
       [firstName |-> "Sophia", lastName |-> "Davis", email |-> "sophia.davis@example.com", age |-> 25, city |-> "Sydney", country |-> "Australia"],
       [firstName |-> "James", lastName |-> "Wilson", email |-> "james.wilson@example.com", age |-> 31, city |-> "Los Angeles", country |-> "USA"],
       [firstName |-> "Olivia", lastName |-> "Martinez", email |-> "olivia.martinez@example.com", age |-> 29, city |-> "Madrid", country |-> "Spain"],
       [firstName |-> "William", lastName |-> "Garcia", email |-> "william.garcia@example.com", age |-> 36, city |-> "Mexico City", country |-> "Mexico"],
       [firstName |-> "Ava", lastName |-> "Rodriguez", email |-> "ava.rodriguez@example.com", age |-> 27, city |-> "Buenos Aires", country |-> "Argentina"],
       [firstName |-> "Alexander", lastName |-> "Lee", email |-> "alexander.lee@example.com", age |-> 45, city |-> "Singapore", country |-> "Singapore"],
       [firstName |-> "Isabella", lastName |-> "Kim", email |-> "isabella.kim@example.com", age |-> 33, city |-> "Seoul", country |-> "South Korea"],
       [firstName |-> "Benjamin", lastName |-> "Nguyen", email |-> "benjamin.nguyen@example.com", age |-> 38, city |-> "Hanoi", country |-> "Vietnam"],
       [firstName |-> "Mia", lastName |-> "Chen", email |-> "mia.chen@example.com", age |-> 26, city |-> "Beijing", country |-> "China"],
       [firstName |-> "Daniel", lastName |-> "Patel", email |-> "daniel.patel@example.com", age |-> 40, city |-> "Mumbai", country |-> "India"],
       [firstName |-> "Charlotte", lastName |-> "Singh", email |-> "charlotte.singh@example.com", age |-> 30, city |-> "Delhi", country |-> "India"],
       [firstName |-> "Henry", lastName |-> "Muller", email |-> "henry.muller@example.com", age |-> 35, city |-> "Berlin", country |-> "Germany"],
       [firstName |-> "Amelia", lastName |-> "Dubois", email |-> "amelia.dubois@example.com", age |-> 32, city |-> "Paris", country |-> "France"],
       [firstName |-> "Sebastian", lastName |-> "Rossi", email |-> "sebastian.rossi@example.com", age |-> 41, city |-> "Rome", country |-> "Italy"],
       [firstName |-> "Harper", lastName |-> "Silva", email |-> "harper.silva@example.com", age |-> 24, city |-> "Sao Paulo", country |-> "Brazil"],
       [firstName |-> "Lucas", lastName |-> "Kowalski", email |-> "lucas.kowalski@example.com", age |-> 37, city |-> "Warsaw", country |-> "Poland"],
       [firstName |-> "Evelyn", lastName |-> "Andersen", email |-> "evelyn.andersen@example.com", age |-> 39, city |-> "Copenhagen", country |-> "Denmark"] >>

SetMax(S) == CHOOSE x \in S : \A y \in S : y <= x

\* The rows of insert(people).values(mockPeople): each with a fresh id and both
\* stamps from the store's clock.
SeedRows(usedIds, now) ==
    LET base == SetMax(Ids \cup usedIds)
    IN  {Spread(mockPeople[i], [id |-> base + i, createdAt |-> now, updatedAt |-> now]) :
            i \in DOMAIN mockPeople}

\* Mutant: the insert without the table's constraints.
SeedInsert_Unchecked(st, usedIds, now) == Ok(st \cup SeedRows(usedIds, now), SeedRows(usedIds, now))

\* One insert statement: every row, or none when a row breaks a constraint.
SeedInsert(st, usedIds, now) ==
    LET rows == SeedRows(usedIds, now)
    IN  IF \E row \in rows : Violates(st, row) THEN Fail(st, "Conflict")
        ELSE Ok(st \cup rows, rows)

\* The entrypoint scripts: dev, dev with the OpenAPI step, prod.
Scripts == {"dev", "dev-openapi", "prod"}

\* Mutant: the script without set -e.
AfterInit_NoSetE(code, script) ==
    IF script = "dev-openapi" THEN "openapi" ELSE "serving"

\* set -e: the script goes on only when db:init exited with 0.
AfterInit(code, script) ==
    IF code # 0 THEN "stopped"
    ELSE IF script = "dev-openapi" THEN "openapi" ELSE "serving"

BootStep == UNCHANGED <<store, used, dbClock, appClock, writes, last, resp, pg, fa, gone, procs, ui, hc>>

\* cd /app/packages/database && pnpm db:init
EntrypointInit ==
    /\ boot.pc = "sleep"
    /\ boot' = [boot EXCEPT !.pc = "init"]
    /\ BootStep

\* isDatabaseEmpty(): its result only picks the log line.
IsDatabaseEmpty ==
    /\ boot.pc = "init"
    /\ boot' = [boot EXCEPT !.pc = "migrate"]
    /\ BootStep

\* init().catch: process.exit(1)
InitFailed(step) == [boot EXCEPT !.pc = "exited", !.code = 1, !.failed = step]

\* runMigrations(): the people table exists afterwards, or migrate() throws.
RunMigrations ==
    /\ boot.pc = "migrate"
    /\ \/ boot' = [boot EXCEPT !.pc = "check", !.tables = TRUE, !.migrated = TRUE]
       \/ boot' = InitFailed("migrate")
    /\ BootStep

\* isPeopleTableEmpty(): result.length === 0, or true when the select throws.
IsPeopleTableEmpty ==
    /\ boot.pc = "check"
    /\ \E tableEmpty \in {store = {}, TRUE} :
          boot' = [boot EXCEPT !.tableEmpty = tableEmpty,
                               !.pc = IF tableEmpty THEN "seed" ELSE "end"]
    /\ BootStep

\* runSeeding()
RunSeeding ==
    /\ boot.pc = "seed"
    /\ \E r \in Reach(SeedInsert(store, used, dbClock), store) :
          /\ store' = r.store
          /\ used' = IF r.err = "none" THEN used \cup {row.id : row \in r.ret} ELSE used
          /\ boot' = IF r.err = "none" THEN [boot EXCEPT !.pc = "end"] ELSE InitFailed("seed")
    /\ UNCHANGED <<dbClock, appClock, writes, last, resp, pg, fa, gone, procs, ui, hc>>

\* await migrationClient.end(); process.exit(0)
InitEnd ==
    /\ boot.pc = "end"
    /\ \/ boot' = [boot EXCEPT !.pc = "exited", !.code = 0]
       \/ boot' = InitFailed("end")
    /\ BootStep

\* The script's next command after db:init.
EntrypointAfterInit ==
    /\ boot.pc = "exited"
    /\ boot' = [boot EXCEPT !.pc = AfterInit(boot.code, boot.script)]
    /\ BootStep

\* The routes each route plugin declares, as (verb, path) of the document.
RoutePlugins ==
    [healthRoutes |-> {<<"GET", "/health">>},
     peopleRoutes |-> {<<"GET", "/people">>, <<"GET", "/people/{id}">>,
                       <<"POST", "/people">>, <<"PUT", "/people/{id}">>,
                       <<"DELETE", "/people/{id}">>}]

\* registerRoutes(fastify): the plugins it registers.
registerRoutes == {"healthRoutes"}

\* fastify.swagger(): one entry for each route of each registered plugin.
Swagger(registered) == UNION {RoutePlugins[plugin] : plugin \in registered}

\* generateOpenAPISpec(): the document written to openapi.json.
generateOpenAPISpec == Swagger(registerRoutes)

\* cd /app/apps/backend-api && pnpm generate:openapi: the document is written and
\* the script goes on, or the generator exits with 1 and set -e stops the script.
GenerateOpenapi ==
    /\ boot.pc = "openapi"
    /\ \/ boot' = [boot EXCEPT !.pc = "serving", !.doc = generateOpenAPISpec]
       \/ boot' = [boot EXCEPT !.pc = "stopped"]
    /\ BootStep

\* The container is started again: the script runs from its first line.
Restart ==
    /\ boot.pc \in {"serving", "stopped"}
    /\ boot.runs < MaxRuns
    /\ boot' = [boot EXCEPT !.pc = "sleep", !.migrated = FALSE, !.tableEmpty = FALSE,
                            !.code = 0 - 1, !.failed = "none", !.runs = @ + 1]
    /\ BootStep

\* Another writer on the same database, once the table exists.
OtherCreate(data) == boot.tables /\ Create(data)
OtherDelete(id) == boot.tables /\ Delete(id)

\* The container's first start: a new database, or one that has the table.
InitBoot ==
    /\ store = {}
    /\ used = {}
    /\ dbClock = 0
    /\ appClock = 0
    /\ writes = 0
    /\ last = [op |-> "init"]
    /\ resp = NoResp
    /\ pg = PgIdle
    /\ fa = FaIdle
    /\ gone = {}
    /\ procs = NoCallers
    /\ ui = Unmounted
    /\ hc = Unmounted
    /\ \E script \in Scripts, tables \in BOOLEAN :
          boot = [pc |-> "sleep", script |-> script, tables |-> tables, fresh |-> ~tables,
                  migrated |-> FALSE, tableEmpty |-> FALSE, code |-> 0 - 1,
                  failed |-> "none", runs |-> 1, doc |-> {}]

-----------------------------------------------------------------------------
(* Concurrent callers: each statement is one step, the callers' steps interleave *)

Slots == {1, 2}

\* What a concurrent caller's step leaves alone.
SlotStep == UNCHANGED <<dbClock, appClock, pg, fa, boot, gone, ui, hc>>

\* The insert of this body would succeed on the store as it is now.
Alone(body) == CanInsert(body) /\ CreateCall(body).err = "none"

\* The bodies of the concurrent POST requests.
ConcurrentPosts ==
    {AnnLee, Spread(AnnLee, [firstName |-> "Bob"]), Spread(AnnLee, [id |-> 1]),
     Spread(AnnLee, [email |-> "bob@example.com"]),
     Spread(AnnLee, [createdAt |-> JsonString]), Without(AnnLee, "email")}

\* POST /people arrives: the body is validated, the handler starts.
PostBegin(p, body) ==
    /\ procs[p].pc \in {"idle", "answered"}
    /\ writes < MaxWrites
    /\ writes' = writes + 1
    /\ procs' = [procs EXCEPT ![p] =
          IF ValidCreateBody(body)
          THEN [pc |-> "handling", body |-> body, alone |-> Alone(body)]
          ELSE [pc |-> "answered", body |-> body, alone |-> FALSE, err |-> "none",
                reply |-> ValidationReply("POST /people", Null)]]
    /\ UNCHANGED <<store, used, last, resp>>
    /\ SlotStep

\* await peopleDAO.create(request.body): the insert statement runs.
PostCreate(p) ==
    /\ procs[p].pc = "handling"
    /\ CanInsert(procs[p].body)
    /\ \E r \in Reach(CreateCall(procs[p].body), store) :
          /\ CreateEffect(procs[p].body, r)
          /\ procs' = [procs EXCEPT ![p] =
                [pc |-> "returned", body |-> @.body, alone |-> @.alone, err |-> r.err,
                 reply |-> PostReply(r)]]
    /\ UNCHANGED <<writes, resp, fa, boot, gone, ui, hc>>

\* The handler's reply is sent.
PostSend(p) ==
    /\ procs[p].pc = "returned"
    /\ procs' = [procs EXCEPT ![p].pc = "answered"]
    /\ resp' = procs[p].reply
    /\ UNCHANGED <<store, used, writes, last>>
    /\ SlotStep

\* The data of the concurrent update calls.
ConcurrentUpdates == {d \in PartialNewPersons : DOMAIN d \subseteq {"firstName", "email", "id"}}

\* PeopleDAO.update(id, data) is called: new Date() is read for the statement's
\* set clause.
UpdateBegin(p, id, data) ==
    /\ procs[p].pc \in {"idle", "returned"}
    /\ writes < MaxWrites
    /\ writes' = writes + 1
    /\ procs' = [procs EXCEPT ![p] =
          [pc |-> "calling", id |-> id, data |-> data, now |-> appClock,
           alone |-> Has(store, id) /\ UpdateCall(id, data).err = "none"]]
    /\ UNCHANGED <<store, used, last, resp>>
    /\ SlotStep

\* The update statement runs.
UpdateRun(p) ==
    /\ procs[p].pc = "calling"
    /\ LET id == procs[p].id
           data == procs[p].data
       IN  \E r \in Reach(DaoUpdate(store, procs[p].now, id, data), store) :
              /\ UpdateEffect(id, data, r)
              /\ procs' = [procs EXCEPT ![p] =
                    [pc |-> "returned", id |-> id, data |-> data, now |-> @.now,
                     alone |-> @.alone, found |-> r.ret # Null, err |-> r.err]]
    /\ UNCHANGED <<writes, resp, fa, boot, gone, ui, hc>>

\* Another caller creates a record.
SlotCreate(data) == (\A p \in Slots : procs[p].pc # "calling") /\ Create(data)

\* An init process (pnpm db:init) at its first line.
InitStart ==
    [pc |-> "start", tableEmpty |-> FALSE, tried |-> FALSE, seeded |-> FALSE,
     err |-> "none", code |-> 0 - 1, failed |-> "none"]

\* init().catch of process p: process.exit(1)
InitFailedAt(p, step) == [procs[p] EXCEPT !.pc = "exited", !.code = 1, !.failed = step]

\* isDatabaseEmpty() of process p: its result only picks the log line.
InitLook(p) ==
    /\ procs[p].pc = "start"
    /\ procs' = [procs EXCEPT ![p].pc = "migrate"]
    /\ UNCHANGED <<store, used, writes, last, resp>>
    /\ SlotStep

\* runMigrations() of process p: the table exists afterwards, or migrate() throws.
InitMigrate(p) ==
    /\ procs[p].pc = "migrate"
    /\ \/ procs' = [procs EXCEPT ![p].pc = "check"]
       \/ procs' = [procs EXCEPT ![p] = InitFailedAt(p, "migrate")]
    /\ UNCHANGED <<store, used, writes, last, resp>>
    /\ SlotStep

\* isPeopleTableEmpty() of process p
InitCheck(p) ==
    /\ procs[p].pc = "check"
    /\ \E tableEmpty \in {store = {}, TRUE} :
          procs' = [procs EXCEPT ![p].tableEmpty = tableEmpty,
                                 ![p].pc = IF tableEmpty THEN "seed" ELSE "end"]
    /\ UNCHANGED <<store, used, writes, last, resp>>
    /\ SlotStep

\* runSeeding() of process p: the insert statement runs.
InitSeed(p) ==
    /\ procs[p].pc = "seed"
    /\ \E r \in Reach(SeedInsert(store, used, dbClock), store) :
          /\ store' = r.store
          /\ used' = IF r.err = "none" THEN used \cup {row.id : row \in r.ret} ELSE used
          /\ procs' = [procs EXCEPT ![p] =
                IF r.err = "none"
                THEN [@ EXCEPT !.pc = "end", !.tried = TRUE, !.seeded = TRUE]
                ELSE [InitFailedAt(p, "seed") EXCEPT !.tried = TRUE, !.err = r.err]]
    /\ UNCHANGED <<writes, last, resp>>
    /\ SlotStep

\* await migrationClient.end(); process.exit(0)
InitExit(p) ==
    /\ procs[p].pc = "end"
    /\ \/ procs' = [procs EXCEPT ![p].pc = "exited", ![p].code = 0]
       \/ procs' = [procs EXCEPT ![p] = InitFailedAt(p, "end")]
    /\ UNCHANGED <<store, used, writes, last, resp>>
    /\ SlotStep

\* Two init processes started on an empty database.
InitInits ==
    /\ store = {}
    /\ used = {}
    /\ dbClock = 0
    /\ appClock = 0
    /\ writes = 0
    /\ last = [op |-> "init"]
    /\ resp = NoResp
    /\ pg = PgIdle
    /\ fa = FaIdle
    /\ boot = Booted
    /\ gone = {}
    /\ procs = [p \in Slots |-> InitStart]
    /\ ui = Unmounted
    /\ hc = Unmounted

InitSlots ==
    /\ store = {}
    /\ used = {}
    /\ dbClock = 0
    /\ appClock = 0
    /\ writes = 0
    /\ last = [op |-> "init"]
    /\ resp = NoResp
    /\ pg = PgIdle
    /\ fa = FaIdle
    /\ boot = Booted
    /\ gone = {}
    /\ procs = [p \in Slots |-> [pc |-> "idle"]]
    /\ ui = Unmounted
    /\ hc = Unmounted

-----------------------------------------------------------------------------
(* PeopleTable (web client): search box, pager, debounce timer, requests *)

\* Time passes in steps of this many milliseconds.
TimeStep == 100

\* What is typed into the search box.
TableSearches == {"", "Ann"}

RECURSIVE IdOrder(_)
\* The rows of the store in one of the orders a select may return them in.
IdOrder(st) ==
    IF st = {} THEN << >>
    ELSE LET first == CHOOSE r \in st : \A q \in st : r.id <= q.id
         IN  <<first>> \o IdOrder(st \ {first})

\* const totalPages = Math.ceil(total / limit)
totalPages(total) == (total + TableLimit - 1) \div TableLimit

\* The pager is rendered: totalPages > 1
PagerShown(total) == totalPages(total) > 1

\* Mutant: Next is never disabled.
NextDisabled_Never(offset, total) == FALSE

\* Next: disabled={offset + limit >= total}
NextDisabled(offset, total) == offset + TableLimit >= total

\* Previous: disabled={offset === 0}
PreviousDisabled(offset) == offset = 0

\* setTimeout(() => fetchPeople(), 300) of the render with this search and offset.
SetTimeout(search, offset) == [search |-> search, offset |-> offset, elapsed |-> 0]

\* Mutant: the effect's cleanup leaves the timer running.
ClearTimeout_Keep(timers) == timers

\* The effect's cleanup: clearTimeout(debounce)
ClearTimeout(timers) == {}

\* setSearch / setOffset: when the value differs, fetchPeople is a new function, the
\* effect's cleanup runs and the effect sets a new timer.
SetState(search, offset, event) ==
    [ui EXCEPT !.search = search, !.offset = offset,
               !.timers = IF <<search, offset>> = <<ui.search, ui.offset>> THEN @
                          ELSE ClearTimeout(@) \cup {SetTimeout(search, offset)},
               !.since = IF <<search, offset>> = <<ui.search, ui.offset>> THEN @ ELSE 0,
               !.event = event, !.events = @ + 1]

\* What a step of the table leaves alone.
TableStep ==
    UNCHANGED <<store, used, dbClock, appClock, writes, last, resp, pg, fa, boot, gone,
                procs, hc>>

\* handleSearchChange
TableSearch(text) ==
    /\ ui.events < MaxEvents
    /\ ui' = SetState(text, 0, "search")
    /\ TableStep

\* Next is clicked.
TableNext ==
    /\ ui.events < MaxEvents
    /\ PagerShown(ui.total)
    /\ ~NextDisabled(ui.offset, ui.total)
    /\ ui' = SetState(ui.search, ui.offset + TableLimit, "next")
    /\ TableStep

\* Previous is clicked.
TablePrevious ==
    /\ ui.events < MaxEvents
    /\ PagerShown(ui.total)
    /\ ~PreviousDisabled(ui.offset)
    /\ ui' = SetState(ui.search, Max(0, ui.offset - TableLimit), "previous")
    /\ TableStep

\* Time passes while a timer is pending; a timer that is due fires first.
TimePasses ==
    /\ ui.timers # {}
    /\ \A t \in ui.timers : t.elapsed < DebounceMs
    /\ ui' = [ui EXCEPT !.timers = {[t EXCEPT !.elapsed = @ + TimeStep] : t \in @},
                        !.since = @ + TimeStep]
    /\ TableStep

\* The query of fetchPeople: limit, offset, and search when it is not empty.
TableQuery(search, offset) ==
    Spread([limit |-> TableLimit, offset |-> offset],
           IF search # "" THEN [search |-> search] ELSE EmptyObject)

\* The timer fires: fetchPeople() of the render that set it.
TimerFires(t) ==
    /\ t \in ui.timers
    /\ t.elapsed >= DebounceMs
    /\ ui' = [ui EXCEPT !.timers = @ \ {t},
                        !.loading = TRUE,
                        !.issued = @ + 1,
                        !.asked = [search |-> t.search, offset |-> t.offset],
                        !.flights = @ \cup {[seq |-> ui.issued + 1, phase |-> "sent",
                                              query |-> TableQuery(t.search, t.offset)]}]
    /\ TableStep

\* The replies a request may get: the route's 200, or a failure (no data: an error
\* status, or no reply at all, which fetchPeople treats alike).
TableReplies(query) ==
    {ListReply(query, DaoFindAll(store, IdOrder(store), ListOptions(query))),
     ThrownReply("GET /people", Null, "Unavailable")}

\* The server answers a request of the table.
TableServed(f) ==
    /\ f \in ui.flights
    /\ f.phase = "sent"
    /\ ValidQuery(f.query)
    /\ \E reply \in TableReplies(f.query) :
          ui' = [ui EXCEPT !.flights = (@ \ {f}) \cup
                    {[seq |-> f.seq, phase |-> "served", query |-> f.query, reply |-> reply]}]
    /\ TableStep

\* The awaited GET returns: data is shown when there is some; finally, loading ends.
TableArrives(f) ==
    /\ f \in ui.flights
    /\ f.phase = "served"
    /\ ui' = IF f.reply.status = 200
             THEN [ui EXCEPT !.flights = @ \ {f}, !.loading = FALSE,
                             !.people = f.reply.body.data, !.total = f.reply.body.total,
                             !.shown = f.seq]
             ELSE [ui EXCEPT !.flights = @ \ {f}, !.loading = FALSE]
    /\ TableStep

\* The page is opened on a seeded store: the first render, and the effect's timer.
InitTable ==
    /\ store = SeedRows({}, 0)
    /\ used = {row.id : row \in SeedRows({}, 0)}
    /\ dbClock = 0
    /\ appClock = 0
    /\ writes = 0
    /\ last = [op |-> "init"]
    /\ resp = NoResp
    /\ pg = PgIdle
    /\ fa = FaIdle
    /\ boot = Booted
    /\ gone = {}
    /\ procs = NoCallers
    /\ ui = [mounted |-> TRUE, people |-> << >>, total |-> 0, loading |-> TRUE,
             search |-> "", offset |-> 0, timers |-> {SetTimeout("", 0)},
             flights |-> {}, issued |-> 0, asked |-> Null, shown |-> 0, since |-> 0,
             event |-> "mount", events |-> 0]
    /\ hc = Unmounted

-----------------------------------------------------------------------------
(* HealthCheck (web client): a check on mount and on every tick of its interval *)

\* Time passes in steps of this many milliseconds.
HealthTimeStep == 10000

\* How a check's fetch ends: an ok response whose body parses, an ok response whose
\* body does not, a response that is not ok, no response.
Outcomes == {"ok", "ok, body unreadable", "not ok", "failed"}

ResponseOk(outcome) == outcome \in {"ok", "ok, body unreadable"}

\* checkHealth, from the awaited fetch on: the status and message it sets.
checkHealth(outcome) ==
    IF outcome = "ok" THEN [status |-> "healthy", message |-> "Server is healthy"]
    ELSE IF outcome = "not ok"
    THEN [status |-> "unhealthy", message |-> "Server returned an error"]
    ELSE [status |-> "unhealthy", message |-> "Unable to connect to server"]

\* Mutant: the effect's cleanup leaves the interval running.
ClearInterval_Keep(interval) == interval

\* The effect's cleanup: clearInterval(interval)
ClearInterval(interval) == FALSE

\* What a step of the component leaves alone.
HealthStep ==
    UNCHANGED <<store, used, dbClock, appClock, writes, last, resp, pg, fa, boot, gone,
                procs, ui>>

\* Time passes while the interval runs; a tick that is due comes first.
HealthTime ==
    /\ hc.interval
    /\ hc.elapsed < HealthIntervalMs
    /\ hc' = [hc EXCEPT !.elapsed = @ + HealthTimeStep]
    /\ HealthStep

\* setInterval(checkHealth, 30000) ticks: a check is started.
HealthTick ==
    /\ hc.interval
    /\ hc.elapsed >= HealthIntervalMs
    /\ hc.started < MaxChecks
    /\ hc' = [hc EXCEPT !.elapsed = 0, !.started = @ + 1,
                        !.flights = @ \cup {hc.started + 1}, !.event = "tick"]
    /\ HealthStep

\* A check's fetch ends: on a mounted component the status and message are set.
HealthDone(check, outcome) ==
    /\ check \in hc.flights
    /\ hc' = IF hc.mounted
             THEN [hc EXCEPT !.flights = @ \ {check},
                             !.status = checkHealth(outcome).status,
                             !.message = checkHealth(outcome).message,
                             !.completed = @ + 1, !.outcome = outcome, !.event = "done"]
             ELSE [hc EXCEPT !.flights = @ \ {check}, !.event = "done"]
    /\ HealthStep

\* The component is unmounted: the effect's cleanup runs.
HealthUnmount ==
    /\ hc.mounted
    /\ hc' = [hc EXCEPT !.mounted = FALSE, !.interval = ClearInterval(@),
                        !.event = "unmount"]
    /\ HealthStep

\* The component has mounted: the effect has started the first check and the
\* interval.
InitHealth ==
    /\ store = {}
    /\ used = {}
    /\ dbClock = 0
    /\ appClock = 0
    /\ writes = 0
    /\ last = [op |-> "init"]
    /\ resp = NoResp
    /\ pg = PgIdle
    /\ fa = FaIdle
    /\ boot = Booted
    /\ gone = {}
    /\ procs = NoCallers
    /\ ui = Unmounted
    /\ hc = [mounted |-> TRUE, status |-> "checking", message |-> "", interval |-> TRUE,
             elapsed |-> 0, started |-> 1, flights |-> {1}, completed |-> 0,
             outcome |-> "none", event |-> "mount"]

-----------------------------------------------------------------------------

Next ==
    \/ TickDb
    \/ TickApp
    \/ \E data \in NewPersons : Create(data)
    \/ \E id \in Ids, data \in PartialNewPersons : Update(id, data)
    \/ \E id \in Ids : Delete(id)
    \/ \E id \in Ids : FindById(id)

Spec == Init /\ [][Next]_vars

NextList ==
    \/ \E data \in NewPersons : Create(data)
    \/ \E id \in Ids : Delete(id)
    \/ \E options \in FindAllOptions : FindAll(options)
    \/ \E limit \in 1..MaxWrites : PageStart(limit)
    \/ PageNext

SpecList == Init /\ [][NextList]_vars

NextHttp ==
    \/ \E query \in ListRequests : GetPeople(query)
    \/ \E id \in PathIds : GetPerson(id)
    \/ \E body \in PostRequests : PostPeople(body)
    \/ \E id \in PathIds, body \in PutRequests : PutPerson(id, body)
    \/ \E id \in PathIds : DeletePerson(id)

SpecHttp == Init /\ [][NextHttp]_vars

NextRace ==
    \/ \E data \in NewPersons : Create(data)
    \/ \E id \in Ids : Delete(id)
    \/ \E options \in RaceOptions : FindAllBegin(options)
    \/ FindAllPageQuery
    \/ FindAllCountQuery
    \/ FindAllReturn

SpecRace == Init /\ [][NextRace]_vars

NextBoot ==
    \/ EntrypointInit
    \/ IsDatabaseEmpty
    \/ RunMigrations
    \/ IsPeopleTableEmpty
    \/ RunSeeding
    \/ InitEnd
    \/ EntrypointAfterInit
    \/ GenerateOpenapi
    \/ Restart
    \/ \E data \in NewPersons : OtherCreate(data)
    \/ \E id \in Ids : OtherDelete(id)

SpecBoot == InitBoot /\ [][NextBoot]_vars

NextPost ==
    \/ \E p \in Slots, body \in ConcurrentPosts : PostBegin(p, body)
    \/ \E p \in Slots : PostCreate(p)
    \/ \E p \in Slots : PostSend(p)

SpecPost == InitSlots /\ [][NextPost]_vars

NextUpdate ==
    \/ \E data \in NewPersons : SlotCreate(data)
    \/ \E p \in Slots, id \in Ids, data \in ConcurrentUpdates : UpdateBegin(p, id, data)
    \/ \E p \in Slots : UpdateRun(p)

SpecUpdate == InitSlots /\ [][NextUpdate]_vars

NextInit ==
    \/ \E p \in Slots : InitLook(p)
    \/ \E p \in Slots : InitMigrate(p)
    \/ \E p \in Slots : InitCheck(p)
    \/ \E p \in Slots : InitSeed(p)
    \/ \E p \in Slots : InitExit(p)
    \/ TickDb

SpecInit == InitInits /\ [][NextInit]_vars

NextTable ==
    \/ \E text \in TableSearches : TableSearch(text)
    \/ TableNext
    \/ TablePrevious
    \/ TimePasses
    \/ \E t \in ui.timers : TimerFires(t)
    \/ \E f \in ui.flights : TableServed(f)
    \/ \E f \in ui.flights : TableArrives(f)
    \/ Create(AnnLee)
    \/ \E id \in Ids : Has(store, id) /\ Delete(id)

SpecTable == InitTable /\ [][NextTable]_vars

NextHealth ==
    \/ HealthTime
    \/ HealthTick
    \/ \E check \in 1..MaxChecks, outcome \in Outcomes : HealthDone(check, outcome)
    \/ HealthUnmount

SpecHealth == InitHealth /\ [][NextHealth]_vars

\* Time does pass, and a timer that is due does fire.
SpecTableLive ==
    /\ InitTable
    /\ [][NextTable]_vars
    /\ WF_vars(TimePasses)
    /\ WF_vars(\E t \in ui.timers : TimerFires(t))

-----------------------------------------------------------------------------
(* Properties *)

Created == last.op = "create" /\ last.err = "none"

\* C1: after a successful create, findById(returned.id) returns a record equal in
\* every field to the returned one, with id, createdAt and updatedAt populated and
\* the six caller-supplied fields equal to the input.
C1_CreateThenFindById ==
    Created =>
        LET found == DaoFindById(store, last.ret.id)
        IN  /\ found = last.ret
            /\ found.id \in Ids
            /\ found.createdAt \in Times
            /\ found.updatedAt \in Times
            /\ \A k \in CreateKeys : found[k] = last.data[k]

C1_Witness == Created /\ DOMAIN last.data = CreateKeys

SameEmail(st, data) == {r \in st : r.email = data.email}

\* C2: a create whose email is already held by a record of the store fails with
\* Conflict and inserts nothing: the store is unchanged and still holds exactly one
\* record with that email.
C2_DuplicateEmailRejected ==
    [][(last'.op = "create" /\ SameEmail(store, last'.data) # {})
        => /\ last'.err = "Conflict"
           /\ store' = store
           /\ Cardinality(SameEmail(store', last'.data)) = 1]_vars

C2_Witness ==
    /\ last.op = "create"
    /\ last.err = "Conflict"
    /\ "id" \notin DOMAIN last.data
    /\ Cardinality(SameEmail(store, last.data)) = 1
    /\ Cardinality(store) = 2

\* C3: delete(id) returns true exactly when a record with that id existed before
\* the call, and afterwards none has that id; deleting an absent id returns false,
\* raises nothing and leaves the store unchanged; a delete right after a delete of
\* the same id that returned true returns false.
C3_DeleteReportsExistence ==
    [][last'.op = "delete"
        => /\ last'.err = "none"
           /\ last'.ret = Has(store, last'.id)
           /\ ~Has(store', last'.id)
           /\ (~Has(store, last'.id) => store' = store)
           /\ \A r \in store : r.id # last'.id => r \in store'
           /\ (last.op = "delete" /\ last.id = last'.id /\ last.ret) => ~last'.ret]_vars

C3_Witness == last.op = "delete" /\ ~last.ret /\ last.id \in used /\ store # {}

Updated == last.op = "update" /\ last.err = "none" /\ last.ret # Null

\* What a successful update(id, data) with an Update-Input does to every field
\* but updatedAt, and to every other record.
UpdateFrame(st, st2, call) ==
    LET old == Row(st, call.id)
        new == call.ret
    IN  /\ \A k \in DOMAIN call.data : new[k] = call.data[k]
        /\ \A k \in PersonKeys \ (DOMAIN call.data \cup {"updatedAt"}) : new[k] = old[k]
        /\ new \in st2
        /\ st2 \ {new} = st \ {old}

UpdatedWithInput == Updated' /\ DOMAIN last'.data \subseteq CreateKeys

\* C4 as stated: a successful update sets exactly the present fields, leaves the
\* absent fields and every other record unchanged, and changes updatedAt.
C4_UpdateChangesStamp ==
    [][UpdatedWithInput
        => /\ UpdateFrame(store, store', last')
           /\ last'.ret.updatedAt # Row(store, last'.id).updatedAt]_vars

\* C4 amended: a successful update sets exactly the present fields, leaves the
\* absent fields and every other record unchanged, and sets updatedAt to the
\* application clock's reading at the call, which can equal the value it replaces.
C4_UpdateSetsStamp ==
    [][UpdatedWithInput
        => /\ UpdateFrame(store, store', last')
           /\ last'.ret.updatedAt = appClock]_vars

C4_Witness ==
    /\ Updated
    /\ last.data = EmptyObject
    /\ Cardinality(store) = 2
    /\ last.ret.updatedAt # last.ret.createdAt

\* C5: a record's id and createdAt never change after insert: a successful
\* update(id, data), data being any Partial<NewPerson>, returns the record with the
\* id it was called with and the createdAt it had.
C5_IdAndCreatedAtFixed ==
    [][Updated'
        => /\ last'.ret.id = last'.id
           /\ last'.ret.createdAt = Row(store, last'.id).createdAt]_vars

\* C6: a record's updatedAt never decreases: a successful update leaves it at
\* least what the insert or the previous update had set.
C6_UpdatedAtMonotone ==
    [][Updated' => last'.ret.updatedAt >= Row(store, last'.id).updatedAt]_vars

\* The search predicate: the search text occurs in one of the record's text fields.
Matches(r, search) == search \in {r.firstName, r.lastName, r.email, r.city, r.country}

Listed == resp.route = "GET /people" /\ resp.status = 200

\* C7: GET /people with a search value returns only records matching it, and total
\* is the number of matching records.
C7_SearchFilters ==
    (Listed /\ "search" \in DOMAIN resp.query)
        => /\ \A i \in DOMAIN resp.body.data : Matches(resp.body.data[i], resp.query.search)
           /\ resp.body.total = Cardinality({r \in store : Matches(r, resp.query.search)})

StoreIds == {r.id : r \in store}

\* C8: walking the pages with a fixed limit until a page is shorter than limit
\* visits exactly the store's records, each exactly once.
C8_PagesCoverStore ==
    pg.phase = "done"
        => /\ Len(pg.visited) = Cardinality(store)
           /\ {pg.visited[i] : i \in DOMAIN pg.visited} = StoreIds

FoundAll == last.op = "findAll"

\* C9: findAll(limit, offset) on a store of n records does not fail, has total = n
\* and a page of min(limit, max(0, n - offset)) records; on an empty store the page
\* is empty and total is 0.
C9_PageLengthAndTotal ==
    FoundAll =>
        LET n == Cardinality(store)
            limit == FindAllLimit(last.options)
            offset == FindAllOffset(last.options)
        IN  /\ last.err = "none"
            /\ last.ret.total = n
            /\ Len(last.ret.data) = Min(limit, Max(0, n - offset))
            /\ \A i \in DOMAIN last.ret.data : last.ret.data[i] \in store
            /\ (store = {} => last.ret.data = <<>> /\ last.ret.total = 0)

C9_Witness ==
    /\ FoundAll
    /\ Cardinality(store) = 2
    /\ FindAllOffset(last.options) = 1
    /\ FindAllLimit(last.options) = 2
    /\ Len(last.ret.data) = 1

Posted == resp.route = "POST /people"

\* C10: POST /people answers 201 with the inserted record exactly when one record
\* was inserted; when the DAO raises Conflict or InvalidArgument it answers 400 with
\* an {error, message} body and the store is unchanged.
C10_PostStatus ==
    [][Posted'
        => /\ resp'.status \in {201, 400}
           /\ (resp'.status = 201) <=> (store' # store)
           /\ resp'.status = 201
                => /\ resp'.body \notin store
                   /\ store' = store \cup {resp'.body}
           /\ last'.err \in {"Conflict", "InvalidArgument"}
                => /\ resp'.status = 400
                   /\ DOMAIN resp'.body = {"error", "message"}
                   /\ store' = store]_vars

C10_Witness ==
    /\ Posted
    /\ resp.status = 400
    /\ resp.body.message = "InvalidArgument"
    /\ store # {}

PutCalled == resp'.route = "PUT /people/:id" /\ last'.op = "update"

EmailTaken(st, id, data) ==
    /\ Has(st, id)
    /\ "email" \in DOMAIN data
    /\ \E r \in st : r.id # id /\ r.email = data.email

\* C11: PUT /people/:id answers 200 with the updated record when the id exists and
\* the update succeeds, 404 with error "Not Found" when no record has that id (the
\* store being reachable), and 400 when the update would give the record an email
\* held by another record; with 404 and 400 the store is unchanged.
C11_PutStatus ==
    [][PutCalled
        => /\ (Has(store, last'.id) /\ last'.err = "none")
                => /\ resp'.status = 200
                   /\ resp'.body = last'.ret
                   /\ resp'.body \in store'
           /\ (~Has(store, last'.id) /\ last'.err # "Unavailable")
                => /\ resp'.status = 404
                   /\ resp'.body.error = "Not Found"
           /\ EmailTaken(store, last'.id, last'.data) => resp'.status = 400
           /\ resp'.status \in {404, 400} => store' = store]_vars

DeleteCalled == resp'.route = "DELETE /people/:id" /\ last'.op = "delete"

\* C12: DELETE /people/:id answers 204 with an empty body exactly when a record
\* with that id existed and was removed, otherwise (the store being reachable) 404
\* with an {error: "Not Found", message} body; after a 204 for an id no later
\* GET /people/:id for that id answers 200.
C12_DeleteThenGone ==
    [][/\ (DeleteCalled /\ last'.err # "Unavailable")
            => /\ resp'.status \in {204, 404}
               /\ (resp'.status = 204) <=> (Has(store, last'.id) /\ ~Has(store', last'.id))
               /\ resp'.status = 204 => resp'.body = Null
               /\ resp'.status = 404
                    => /\ DOMAIN resp'.body = {"error", "message"}
                       /\ resp'.body.error = "Not Found"
                       /\ store' = store
       /\ (resp'.route = "GET /people/:id" /\ resp'.request \in gone)
            => resp'.status # 200]_vars

GetOneCalled == resp'.route = "GET /people/:id" /\ last'.op = "findById"

\* C13: GET /people/:id with a well-formed id (the store being reachable) answers
\* 200 with the stored record exactly when a record with that id is in the store
\* at the read, and otherwise 404 with the body {error: "Not Found", message:
\* "Person with id <id> not found"}; it changes nothing.
C13_GetOneStatus ==
    [][(GetOneCalled /\ last'.err = "none")
        => /\ IsUuid(resp'.request)
           /\ (resp'.status = 200) <=> Has(store, resp'.request)
           /\ resp'.status = 200 => resp'.body = Row(store, resp'.request)
           /\ resp'.status # 200
                => /\ resp'.status = 404
                   /\ resp'.body = [error |-> "Not Found",
                                    message |-> <<"Person with id", resp'.request, "not found">>]
           /\ UNCHANGED <<store, used>>]_vars

C13_Witness ==
    /\ resp.route = "GET /people/:id"
    /\ resp.status = 404
    /\ resp.request \in used
    /\ store # {}

Answered == resp.route # "none"

\* C14: on every people route, when the DAO call fails because the store cannot be
\* reached, the response status is 500, never 400 or 404.
C14_UnavailableIs500 ==
    (Answered /\ last.err = "Unavailable") => resp.status = 500

IdRoutes == {"GET /people/:id", "PUT /people/:id", "DELETE /people/:id"}

\* C15: a get-one, update or delete request whose path id is not a well-formed
\* uuid is answered 400, never 404, and no DAO method is called for it.
C15_MalformedIdRejected ==
    [][(resp'.route \in IdRoutes /\ ~IsUuid(resp'.request))
        => /\ resp'.status = 400
           /\ resp'.body.error = "Bad Request"
           /\ last' = NoCall
           /\ store' = store]_vars

C15_Witness ==
    /\ resp.route = "DELETE /people/:id"
    /\ ~IsUuid(resp.request)
    /\ resp.status = 400
    /\ store # {}

\* C16: no DAO method is called by a route handler with input that fails the
\* route's schema: findAll only with limit within 1..100 and offset >= 0,
\* findById, update and delete only with a uuid, create only with the six required
\* fields within their bounds, and update only with fields of the Update-Input.
C16_OnlyValidatedInput ==
    Answered
        => /\ last.op = "findAll"
                => /\ last.options.limit \in 1..100
                   /\ last.options.offset >= 0
           /\ last.op \in {"findById", "update", "delete"} => IsUuid(last.id)
           /\ last.op = "create"
                => /\ CreateKeys \subseteq DOMAIN last.data
                   /\ \A k \in CreateKeys : FieldOk(k, last.data[k])
           /\ last.op = "update"
                => /\ DOMAIN last.data \subseteq CreateKeys
                   /\ \A k \in DOMAIN last.data : FieldOk(k, last.data[k])

\* C17: GET /people uses limit = 10 when the query has no limit and offset = 0 when
\* it has no offset, the response's limit and offset are the values passed to
\* findAll, and data never holds more than limit records, limit being within 1..100.
C17_ListDefaults ==
    Listed
        => /\ last.op = "findAll"
           /\ last.options.limit =
                (IF "limit" \in DOMAIN resp.query THEN resp.query.limit ELSE 10)
           /\ last.options.offset =
                (IF "offset" \in DOMAIN resp.query THEN resp.query.offset ELSE 0)
           /\ resp.body.limit = last.options.limit
           /\ resp.body.offset = last.options.offset
           /\ resp.body.limit \in 1..100
           /\ Len(resp.body.data) <= resp.body.limit

C17_Witness ==
    /\ Listed
    /\ DOMAIN resp.query = {}
    /\ resp.body.limit = 10
    /\ Len(resp.body.data) = 2

Returned == last.op = "findAll" /\ "snaps" \in DOMAIN last

IsPageOf(data, st, options) ==
    \E order \in Orders(st) :
        data = SelectPage(order, FindAllLimit(options), FindAllOffset(options))

\* C18 as stated: for every findAll result, even with create and delete calls
\* running during the call, there is one store state during the call of which data
\* is the requested page and total the record count.
C18_SameSnapshot ==
    Returned
        => \E st \in last.snaps :
              /\ IsPageOf(last.ret.data, st, last.options)
              /\ last.ret.total = Cardinality(st)

\* C18 amended: data is the requested page of a store state during the call and
\* total the record count of a store state during the call, not necessarily the
\* same one; they are of one state when no write runs during the call.
C18_TwoReads ==
    Returned
        => /\ \E st \in last.snaps : IsPageOf(last.ret.data, st, last.options)
           /\ \E st \in last.snaps : last.ret.total = Cardinality(st)

C18_Witness ==
    /\ Returned
    /\ last.options = EmptyObject
    /\ Cardinality(last.snaps) = 2
    /\ Len(last.ret.data) = 1
    /\ last.ret.total = 2

Seeds == {r \in store : \E i \in DOMAIN mockPeople : r.email = mockPeople[i].email}

\* C19: init seeds the 20 mock people only into an empty people table: it never
\* inserts seed rows into a table that holds data, and from a new database with no
\* other writer, every init that exits with 0 leaves exactly the 20 mock people.
C19_SeedOnlyWhenEmpty ==
    [][/\ (boot.pc = "seed" /\ store' # store) => store = {}
       /\ (boot'.fresh /\ writes' = 0 /\ boot'.pc = "exited" /\ boot'.code = 0)
            => /\ Cardinality(store') = 20
               /\ Seeds' = store']_vars

\* C20: in a run of the entrypoint, the migrations have completed before the seed
\* check and the seeding, the server is started only after init has exited with 0,
\* and when the migration or the seeding fails init exits with 1 and the server is
\* not started.
C20_StartupOrder ==
    /\ boot.pc \in {"check", "seed", "end"} => boot.migrated /\ boot.tables
    /\ boot.pc \in {"openapi", "serving"} => boot.code = 0 /\ boot.migrated
    /\ boot.failed \in {"migrate", "seed"}
         => /\ boot.code = 1
            /\ boot.pc \in {"exited", "stopped"}

C20_Witness ==
    /\ boot.pc = "serving"
    /\ boot.runs = 2
    /\ boot.code = 0
    /\ Cardinality(store) = 20

Failure == Answered /\ resp.status \in {400, 404, 500}

\* C21: every failure response of a people route (status 400, 404 or 500) has a
\* body with an error field and a message field; none has an empty body.
C21_FailureHasErrorAndMessage ==
    Failure
        => /\ resp.body # Null
           /\ {"error", "message"} \subseteq DOMAIN resp.body

C21_Witness ==
    /\ Failure
    /\ resp.route = "PUT /people/:id"
    /\ resp.status = 400
    /\ resp.body.message = "Conflict"

\* C22: for a fixed set of records, findAll is deterministic: a findAll that
\* follows a findAll with the same limit and offset on the same store returns the
\* same records in the same order.
C22_FindAllDeterministic ==
    [][(last.op = "findAll" /\ last'.op = "findAll" /\ last'.options = last.options
            /\ store' = store)
        => last'.ret = last.ret]_vars

\* The generator has run and written its document.
Generated == boot.script = "dev-openapi" /\ boot.pc = "serving"

\* C24: the generated OpenAPI document has an entry for every route handler
\* (GET /health and the five people routes): every declared route plugin is
\* registered by registerRoutes.
C24_DocumentHasEveryRoute ==
    Generated
        => /\ DOMAIN RoutePlugins \subseteq registerRoutes
           /\ boot.doc = Swagger(DOMAIN RoutePlugins)

\* Both requests are answered, they carry one email, each would have been created
\* had it run alone on the store it arrived at, and the store was reached by both.
BothPosted ==
    /\ \A p \in Slots : procs[p].pc = "answered" /\ procs[p].alone
                            /\ procs[p].err # "Unavailable"
    /\ procs[1].body.email = procs[2].body.email

\* C23: of two POST /people requests that run concurrently with the same email
\* (each of them would be created if it ran alone, and the store is reachable),
\* exactly one is answered 201 and the other 400, and the store ends with exactly
\* one record with that email, whatever the interleaving.
C23_OneOfTwoPosts ==
    BothPosted
        => /\ \E p \in Slots :
                 /\ procs[p].reply.status = 201
                 /\ \A q \in Slots \ {p} : procs[q].reply.status = 400
           /\ Cardinality({row \in store : row.email = procs[1].body.email}) = 1

C23_Witness ==
    /\ BothPosted
    /\ procs[2].reply.status = 201
    /\ procs[1].reply.status = 400
    /\ procs[1].body # procs[2].body

\* Both update calls have returned; they were in flight together on one existing
\* id, their present fields are disjoint, each would have succeeded had it run
\* alone, and the store was reached by both.
BothUpdated ==
    /\ \A p \in Slots : procs[p].pc = "returned" /\ procs[p].alone
                            /\ procs[p].err # "Unavailable"
    /\ procs[1].id = procs[2].id
    /\ DOMAIN procs[1].data \cap DOMAIN procs[2].data = {}

Carries(row, data) ==
    \A k \in DOMAIN data :
        row[k] = (IF k \in StampKeys THEN data[k].t ELSE data[k])

\* C26: two concurrent PeopleDAO.update calls on one existing id whose present
\* fields are disjoint both take effect: in every interleaving a record of the
\* store carries both calls' new values.
C26_NoLostUpdate ==
    BothUpdated
        => \E row \in store : Carries(row, procs[1].data) /\ Carries(row, procs[2].data)

\* The init processes whose seed insert has committed.
Seeders == {p \in Slots : procs[p].seeded}

\* C27: when two init processes run concurrently on an empty database the table
\* never has more than the 20 seed rows: at most one seed insert commits, and the
\* process whose insert runs second fails on the email constraint and exits with 1
\* without inserting.
C27_OneSeedCommits ==
    /\ Cardinality(store) <= Len(mockPeople)
    /\ Cardinality(Seeders) <= 1
    /\ \A p \in Slots :
          (procs[p].tried /\ ~procs[p].seeded /\ procs[p].err # "Unavailable")
              => /\ procs[p].err = "Conflict"
                 /\ procs[p].pc = "exited"
                 /\ procs[p].code = 1
    /\ (\A p \in Slots : procs[p].tried /\ procs[p].err # "Unavailable")
          => Cardinality(Seeders) = 1 /\ Cardinality(store) = Len(mockPeople)

C27_Witness ==
    /\ procs[1].tried /\ procs[1].seeded
    /\ procs[2].tried /\ procs[2].err = "Conflict" /\ procs[2].code = 1
    /\ Cardinality(store) = Len(mockPeople)

\* The step is this event of the user.
TableEvent(event) == ui'.events = ui.events + 1 /\ ui'.event = event

\* C25: PeopleTable's offset is always a non-negative multiple of limit; every
\* search edit sets it to 0; Next is clicked only while offset + limit is below the
\* total last fetched, so the click never moves offset to or past that total.
C25_OffsetOnPageBoundary ==
    /\ [](ui.offset >= 0 /\ ui.offset % TableLimit = 0)
    /\ [][/\ TableEvent("search") => ui'.offset = 0
          /\ TableEvent("next") => /\ ui.offset + TableLimit < ui.total
                                    /\ ui'.offset = ui.offset + TableLimit
                                    /\ ui'.offset < ui.total]_vars

C25_Witness ==
    /\ ui.event = "next"
    /\ ui.offset = 2 * TableLimit
    /\ ui.total > 2 * TableLimit

\* C28: the rows and total PeopleTable shows come from the response to the most
\* recently issued request: a response to an earlier request that arrives after a
\* later one's does not replace the later data; and loading is true whenever a
\* request is in flight.
C28_LatestResponseShown ==
    [][/\ ui'.shown >= ui.shown
       /\ ui'.flights # {} => ui'.loading]_vars

\* The search and offset the table has now.
Current == [search |-> ui.search, offset |-> ui.offset]

\* C29: PeopleTable issues a request only after 300 ms without a change of search
\* or offset; each change cancels the pending timer, so a burst of changes yields
\* one request, with the final search and offset; and once the changes stop, a
\* request for the current search and offset is eventually issued.
C29_Debounce ==
    /\ [](/\ Cardinality(ui.timers) <= 1
          /\ \A t \in ui.timers : /\ [search |-> t.search, offset |-> t.offset] = Current
                                  /\ t.elapsed = ui.since)
    /\ [][ui'.issued # ui.issued
            => /\ ui.since >= DebounceMs
               /\ ui'.issued = ui.issued + 1
               /\ ui'.asked = Current
               /\ ui'.timers = {}]_vars
    /\ <>[](ui.timers = {} /\ ui.asked = Current)

C29_Witness ==
    /\ ui.events = 2
    /\ ui.event = "search"
    /\ ui.search = "Ann"
    /\ ui.issued = 1
    /\ ui.asked = Current

\* A check completes on the mounted component in this step.
Completes == hc'.completed = hc.completed + 1

\* What C30 says besides the status a completed check sets: 'checking' exactly
\* until the first check completes and never again; a check is started only by a
\* tick of the interval, 30 s after the mount or the previous tick; none is started
\* after the unmount.
HealthSteps ==
    /\ hc.status # "checking" => hc'.status # "checking"
    /\ hc'.started # hc.started
          => /\ hc'.started = hc.started + 1
             /\ hc.elapsed >= HealthIntervalMs
             /\ hc.mounted
    /\ ~hc.mounted => hc'.started = hc.started

HealthStates ==
    /\ (hc.status = "checking") <=> (hc.completed = 0)
    /\ hc.started >= 1
    /\ hc.elapsed <= HealthIntervalMs

====
